---- MODULE Spec2Model ----
(***************************************************************************)
(* Model of the T1D simulation tool server (fastMCP_adapter.py): the      *)
(* one-time initialization guard _ensure_pymgipsim_initialized and the    *)
(* tool handler simulate_glucose_dynamics, statement group by statement   *)
(* group.  Every call of the handler runs in a frame (a slot); the        *)
(* process-wide state is the flag _initialized, the working directory,    *)
(* the import system's record of the module `initialization`, and the     *)
(* results folders created so far.                                        *)
(***************************************************************************)
EXTENDS Integers, Sequences, FiniteSets, TLC

\* ------------------------------------------------------------------ bounds
NumSlots == 2          \* frames that can exist at the same time
MaxRequests == 3       \* requests started in one behaviour
MaxOverlapping == 2    \* requests started in one behaviour when calls can overlap
MaxDuration == 2881    \* largest duration_minutes the parameter mapper is run on
MaxSamples == 32       \* longest sample sequence the summarizer is run on
MaxSteps == 12         \* largest "steps" argument given to the adapter

\* --------------------------------------------------------------- constants
MinutesPerDay == 1440                  \* 24 * 60
LowThreshold == 7000                   \* 70 mg/dL, in hundredths
HighThreshold == 18000                 \* 180 mg/dL, in hundredths
SubsampleStep == 15
ConvFactor == 18                       \* mmol/L -> mg/dL factor for glucose

Slots == 1..NumSlots

LAUNCH_DIR == "launch_dir"             \* the directory the server was started from
PY_MGIPSIM_DIR == "py_mgipsim"         \* os.path.join(BASE_DIR, "py_mgipsim")

ErrorPrefix == "Error executing simulation: "

\* ------------------------------------------------------------------ inputs
\* carbs_grams: a positive number, a negative number, a non-numeric value
Num(v) == [kind |-> "num", val |-> v]
NonNumeric == [kind |-> "str", val |-> 0]
CarbInputs == {Num(50), Num(-5), NonNumeric}
BolusInputs == {0, 4}
WeightInputs == {70, 50}
DurationInputs == {-1, 120, 1500}

Requests == [carbs_grams : CarbInputs, insulin_bolus : BolusInputs,
             body_weight : WeightInputs, duration_minutes : DurationInputs]

\* the request with every default of the signature, carbs_grams = 50
DefaultRequest == [carbs_grams |-> Num(50), insulin_bolus |-> 0,
                   body_weight |-> 70, duration_minutes |-> 120]

\* scenario_name as parse_args([]) delivers it: empty (falsy) or a name
ScenarioNames == {"", "named"}

VARIABLES
  initialized,       \* the module-level flag _initialized
  cwd,               \* the process working directory
  sys_modules,       \* "absent", "loading" or "loaded": the module `initialization`
  scenario_default,  \* args.scenario_name of the engine's default CLI arguments
  folders,           \* number of results folders created
  frame,             \* frame[s]: locals of the call running in slot s
  nreq,              \* requests started so far
  initRuns,          \* history: executions of the body of `initialization`
  initOK,            \* history: executions of that body that completed
  tool_call          \* locals of the running SimulatorAdapter.call_tool, or idle

vars == <<initialized, cwd, sys_modules, scenario_default, folders, frame,
          nreq, initRuns, initOK, tool_call>>

NoArgs == [none |-> TRUE]
NoCohort == [none |-> TRUE]
NoResult == [kind |-> "none"]

NoRawResult == [none |-> TRUE]
IdleToolCall ==
  [pc |-> "idle", arguments |-> <<>>, steps |-> NonNumeric, context |-> "",
   raw_result |-> NoRawResult, output |-> <<>>]

IdleFrame ==
  [pc |-> "idle", req |-> DefaultRequest, entry_cwd |-> "", old_cwd |-> "",
   exc |-> "", args |-> NoArgs, results_folder_path |-> 0,
   settings_file |-> <<>>, cohort |-> NoCohort, calls |-> <<>>,
   failed |-> "", result |-> NoResult]

Init ==
  /\ initialized = FALSE
  /\ cwd = LAUNCH_DIR
  /\ sys_modules = "absent"
  /\ scenario_default \in ScenarioNames
  /\ folders = 0
  /\ frame = [s \in Slots |-> IdleFrame]
  /\ nreq = 0
  /\ initRuns = 0
  /\ initOK = 0
  /\ tool_call = IdleToolCall

\* ------------------------------------------------------- the tool boundary
\* variant: the failure description returned without the standard prefix
ErrorStringNoPrefix(e) == [kind |-> "plain", prefix |-> "", detail |-> e]

\* f"Error executing simulation: {str(e)}"
ErrorString(e) == [kind |-> "plain", prefix |-> ErrorPrefix, detail |-> e]

\* variant: an engine stage that raised is run again
ExceptPcRetry(stage) ==
  IF stage \in {"settings", "subjects", "inputs", "results"} THEN stage ELSE "done"

\* position reached when a statement of `stage` inside the try block raised:
\* the except clause returns, nothing is run again
ExceptPc(stage) == "done"

\* except Exception as e: logger.exception(...); return the error string
Except(f, stage, e) ==
  [f EXCEPT !.pc = ExceptPc(stage), !.failed = stage, !.result = ErrorString(e)]

InFlight(s) == frame[s].pc # "idle"

\* A request arrives and the handler is entered (logging only), one call at a time.
Start(s, r) ==
  /\ nreq < MaxRequests
  /\ frame[s].pc = "idle"
  /\ \A q \in Slots : ~InFlight(q)
  /\ frame' = [frame EXCEPT ![s] = [IdleFrame EXCEPT !.pc = "guard", !.req = r]]
  /\ nreq' = nreq + 1
  /\ UNCHANGED <<initialized, cwd, sys_modules, scenario_default, folders, initRuns, initOK, tool_call>>

\* The same arrival when calls are not serialized: other frames may be in flight.
StartConcurrent(s) ==
  /\ nreq < MaxOverlapping
  /\ frame[s].pc = "idle"
  /\ frame' = [frame EXCEPT ![s] = [IdleFrame EXCEPT !.pc = "guard", !.req = DefaultRequest]]
  /\ nreq' = nreq + 1
  /\ UNCHANGED <<initialized, cwd, sys_modules, scenario_default, folders, initRuns, initOK, tool_call>>

\* ------------------------------------------- _ensure_pymgipsim_initialized
\* variant: the flag is not consulted
GuardTargetAlwaysRun(flag) == "getcwd"

\* variant: the guard returns without initializing
GuardTargetSkip(flag) == "map"

\* if _initialized: return
GuardTarget(flag) == IF flag THEN "map" ELSE "getcwd"

EnsureCheck(s) ==
  /\ frame[s].pc = "guard"
  /\ frame' = [frame EXCEPT ![s].pc = GuardTarget(initialized), ![s].entry_cwd = cwd]
  /\ UNCHANGED <<initialized, cwd, sys_modules, scenario_default, folders, nreq, initRuns, initOK, tool_call>>

\* old_cwd = os.getcwd()
EnsureGetcwd(s) ==
  /\ frame[s].pc = "getcwd"
  /\ frame' = [frame EXCEPT ![s].pc = "chdir", ![s].old_cwd = cwd]
  /\ UNCHANGED <<initialized, cwd, sys_modules, scenario_default, folders, nreq, initRuns, initOK, tool_call>>

\* try: os.chdir(PY_MGIPSIM_DIR)  -- may raise when the directory is missing
EnsureChdir(s) ==
  /\ frame[s].pc = "chdir"
  /\ \/ /\ cwd' = PY_MGIPSIM_DIR
        /\ frame' = [frame EXCEPT ![s].pc = "import"]
     \/ /\ cwd' = cwd
        /\ frame' = [frame EXCEPT ![s].pc = "finally", ![s].exc = "chdir failed"]
  /\ UNCHANGED <<initialized, sys_modules, scenario_default, folders, nreq, initRuns, initOK, tool_call>>

\* import initialization: a module already loaded is not executed again; a
\* module being loaded by another frame is waited for; else its body starts.
EnsureImport(s) ==
  /\ frame[s].pc = "import"
  /\ \/ /\ sys_modules = "loaded"
        /\ frame' = [frame EXCEPT ![s].pc = "finally"]
        /\ UNCHANGED <<sys_modules, initRuns>>
     \/ /\ sys_modules = "absent"
        /\ sys_modules' = "loading"
        /\ initRuns' = initRuns + 1
        /\ frame' = [frame EXCEPT ![s].pc = "importing"]
  /\ UNCHANGED <<initialized, cwd, scenario_default, folders, nreq, initOK, tool_call>>

\* the body of `initialization` finishes: it completed, or it raised and the
\* import system forgets the module
EnsureImportEnd(s) ==
  /\ frame[s].pc = "importing"
  /\ \/ /\ sys_modules' = "loaded"
        /\ initOK' = initOK + 1
        /\ frame' = [frame EXCEPT ![s].pc = "finally"]
     \/ /\ sys_modules' = "absent"
        /\ initOK' = initOK
        /\ frame' = [frame EXCEPT ![s].pc = "finally", ![s].exc = "initialization failed"]
  /\ UNCHANGED <<initialized, cwd, scenario_default, folders, nreq, initRuns, tool_call>>

\* variant: the directory is restored only when the try block did not raise
RestoreCwdOnSuccess(old, cur, exc) == IF exc = "" THEN old ELSE cur

\* finally: os.chdir(old_cwd) -- the directory after the finally clause
RestoreCwd(old, cur, exc) == old

\* after the finally clause: a pending exception leaves the guard and reaches
\* the handler's except clause, else the flag is set next
EnsureFinally(s) ==
  /\ frame[s].pc = "finally"
  /\ cwd' = RestoreCwd(frame[s].old_cwd, cwd, frame[s].exc)
  /\ frame' = [frame EXCEPT ![s] =
        IF @.exc # "" THEN Except(@, "initialization", @.exc)
        ELSE [@ EXCEPT !.pc = "setflag"]]
  /\ UNCHANGED <<initialized, sys_modules, scenario_default, folders, nreq, initRuns, initOK, tool_call>>

\* _initialized = True
FlagAfterInit(flag) == TRUE

EnsureSetFlag(s) ==
  /\ frame[s].pc = "setflag"
  /\ initialized' = FlagAfterInit(initialized)
  /\ frame' = [frame EXCEPT ![s].pc = "map"]
  /\ UNCHANGED <<cwd, sys_modules, scenario_default, folders, nreq, initRuns, initOK, tool_call>>

\* ------------------------------------------------------- Parameter mapping
\* parser.parse_args([]): the engine's defaults; the activity lists are empty
ParserDefaults(name) ==
  [scenario_name |-> name, number_of_days |-> 1,
   breakfast_carb_range |-> <<Num(80), Num(120)>>,
   running_start_time |-> <<>>, cycling_start_time |-> <<>>,
   running_duration |-> <<>>, cycling_duration |-> <<>>,
   running_incline |-> <<>>, running_speed |-> <<>>, cycling_power |-> <<>>]

Max(a, b) == IF a >= b THEN a ELSE b

\* np.ceil(a / b) for integers a and b > 0
CeilDiv(a, b) == -((-a) \div b)

\* variant: floor plus one instead of ceiling
DaysFloor(duration_minutes) == Max(1, (duration_minutes \div MinutesPerDay) + 1)

\* days = max(1, int(np.ceil(duration_minutes / (24 * 60))))
Days(duration_minutes) == Max(1, CeilDiv(duration_minutes, MinutesPerDay))

\* variant: the override is not applied
SetIfHasSkipped(a, field, value) == a

\* if hasattr(args, field): args.field = value
SetIfHas(a, field, value) ==
  IF field \in DOMAIN a THEN [a EXCEPT ![field] = value] ELSE a

\* variant: the body weight is written into the carbohydrate range
MapArgsWithWeight(defaults, r) ==
  LET a0 == [defaults EXCEPT !.number_of_days = Days(r.duration_minutes),
                             !.breakfast_carb_range = <<r.carbs_grams, Num(r.body_weight)>>]
      a1 == [a0 EXCEPT !.running_start_time = <<"00:00">>, !.cycling_start_time = <<"00:00">>,
                       !.running_duration = <<0>>, !.cycling_duration = <<0>>]
  IN  [a1 EXCEPT !.running_incline = <<0>>, !.running_speed = <<0>>, !.cycling_power = <<0>>]

\* lines 105-133: the overrides applied to the default arguments
MapArgs(defaults, r) ==
  LET a0 == [defaults EXCEPT !.number_of_days = Days(r.duration_minutes)]
      a1 == SetIfHas(a0, "breakfast_carb_range", <<r.carbs_grams, r.carbs_grams>>)
      a2 == SetIfHas(a1, "running_start_time", <<"00:00">>)
      a3 == SetIfHas(a2, "cycling_start_time", <<"00:00">>)
      a4 == SetIfHas(a3, "running_duration", <<0>>)
      a5 == SetIfHas(a4, "cycling_duration", <<0>>)
      a6 == SetIfHas(a5, "running_incline", <<0>>)
      a7 == SetIfHas(a6, "running_speed", <<0>>)
  IN  SetIfHas(a7, "cycling_power", <<0>>)

\* lines 100-133: build the parser, take its defaults, override them
MapParameters(s) ==
  /\ frame[s].pc = "map"
  /\ \/ frame' = [frame EXCEPT ![s].pc = "folder",
                                ![s].args = MapArgs(ParserDefaults(scenario_default), frame[s].req)]
     \/ frame' = [frame EXCEPT ![s] = Except(@, "mapping", "parser failed")]
  /\ UNCHANGED <<initialized, cwd, sys_modules, scenario_default, folders, nreq, initRuns, initOK, tool_call>>

\* --------------------------------------------------------- Pipeline invoker
\* the record of one call into the engine, kept as history in frame[s].calls
Call(stage, f) ==
  [stage |-> stage, scenario_instance |-> f.settings_file, args |-> f.args,
   results_folder_path |-> f.results_folder_path, cwd |-> cwd]

\* what an engine stage returns: the scenario it was given, updated by the stage
StageOutput(stage, scenario_instance) == Append(scenario_instance, stage)

NumericRange(range) == \A i \in 1..Len(range) : range[i].kind = "num"

\* whether the engine stage can complete on these arguments: input-signal
\* generation samples the carbohydrate range and needs numbers
EngineAccepts(stage, a) ==
  stage = "inputs" => NumericRange(a.breakfast_carb_range)

\* simulation_folder.create_simulation_results_folder(results_path)
CreateResultsFolder(s) ==
  /\ frame[s].pc = "folder"
  /\ \/ /\ folders' = folders + 1
        /\ frame' = [frame EXCEPT ![s] =
              [@ EXCEPT !.pc = "load", !.results_folder_path = folders + 1,
                        !.calls = Append(@, Call("folder", frame[s]))]]
     \/ /\ folders' = folders
        /\ frame' = [frame EXCEPT ![s] =
              [Except(@, "folder", "folder creation failed")
                 EXCEPT !.calls = Append(@, Call("folder", frame[s]))]]
  /\ UNCHANGED <<initialized, cwd, sys_modules, scenario_default, nreq, initRuns, initOK, tool_call>>

\* variant: the preparation stages run whatever the scenario name
AfterLoadAlwaysPrepare(a) == "settings"

\* if not args.scenario_name: the three preparation stages, else simulation
AfterLoad(a) == IF a.scenario_name = "" THEN "settings" ELSE "results"

\* settings_file = simulation_folder.load_settings_file(args, results_folder_path)
LoadSettingsFile(s) ==
  /\ frame[s].pc = "load"
  /\ \/ frame' = [frame EXCEPT ![s] =
           [@ EXCEPT !.pc = AfterLoad(frame[s].args), !.settings_file = <<"load">>,
                     !.calls = Append(@, Call("load", frame[s]))]]
     \/ frame' = [frame EXCEPT ![s] =
           [Except(@, "load", "load failed")
              EXCEPT !.calls = Append(@, Call("load", frame[s]))]]
  /\ UNCHANGED <<initialized, cwd, sys_modules, scenario_default, folders, nreq, initRuns, initOK, tool_call>>

\* the statement that follows a preparation stage that returned
NextStage(stage) ==
  CASE stage = "settings" -> "subjects"
    [] stage = "subjects" -> "activity"
    [] stage = "activity" -> "inputs"
    [] stage = "inputs"   -> "results"

\* variant: every stage is handed the scenario as it was loaded
StageInputLoaded(f) == <<"load">>

\* the scenario handed to a stage: the variable settings_file as it stands
StageInput(f) == f.settings_file

\* settings_file = generate_<stage>_main(scenario_instance=settings_file, args=args, ...)
\* the stage returns the updated scenario or raises
RunStage(s, stage) ==
  /\ frame[s].pc = stage
  /\ LET f == [frame[s] EXCEPT !.settings_file = StageInput(frame[s])]
         called == [frame[s] EXCEPT !.calls = Append(@, Call(stage, f))]
     IN \/ /\ EngineAccepts(stage, f.args)
           /\ frame' = [frame EXCEPT ![s] =
                 [called EXCEPT !.pc = NextStage(stage),
                                !.settings_file = StageOutput(stage, f.settings_file)]]
        \/ frame' = [frame EXCEPT ![s] = Except(called, stage, "engine failed")]
  /\ UNCHANGED <<initialized, cwd, sys_modules, scenario_default, folders, nreq, initRuns, initOK, tool_call>>

GenerateSettings(s) == RunStage(s, "settings")
GenerateSubjects(s) == RunStage(s, "subjects")
\* activity_args_to_scenario(settings_file, args): updates the scenario in place
ActivityArgsToScenario(s) == RunStage(s, "activity")
GenerateInputs(s) == RunStage(s, "inputs")

\* ------------------------------------------------------- Cohort simulation
\* What generate_results_main can return: the glucose state of subject 0 over
\* the sample times, its unit, and the distribution volume VG[0].  Glucose is
\* held in hundredths (of mg/dL, or of mmol/L times VG).
Ramp == [i \in 1..17 |-> 9000 + ((i * 37) % 11) * 1015]
CohortResults ==
  { [has_glucose |-> TRUE, unit |-> "mg/dL", VG |-> 1,
     time |-> <<0, 60, 120, 180>>, raw |-> <<11000, 19055, 15000, 6500>>],
    [has_glucose |-> TRUE, unit |-> "mmol/L", VG |-> 10,
     time |-> <<0, 120, 1500>>, raw |-> <<6000, 9000, 3500>>],
    [has_glucose |-> TRUE, unit |-> "mg/dL", VG |-> 1,
     time |-> [i \in 1..17 |-> (i - 1) * 10], raw |-> Ramp],
    [has_glucose |-> FALSE, unit |-> "mg/dL", VG |-> 1,
     time |-> <<0>>, raw |-> <<>>] }

\* cohort, _ = generate_results_main(scenario_instance=settings_file, args=vars(args), ...)
GenerateResults(s) ==
  /\ frame[s].pc = "results"
  /\ LET f == [frame[s] EXCEPT !.settings_file = StageInput(frame[s])]
         called == [frame[s] EXCEPT !.calls = Append(@, Call("results", f))]
     IN \/ \E c \in CohortResults :
             frame' = [frame EXCEPT ![s] = [called EXCEPT !.pc = "summarize", !.cohort = c]]
        \/ frame' = [frame EXCEPT ![s] = Except(called, "results", "engine failed")]
  /\ UNCHANGED <<initialized, cwd, sys_modules, scenario_default, folders, nreq, initRuns, initOK, tool_call>>

\* ------------------------------------- Result extraction and normalization
\* variant: the conversion is applied whatever the unit
NormalizeAlways(c) == [i \in 1..Len(c.raw) |-> ConvFactor * (c.raw[i] \div c.VG)]

\* UnitConversion.glucose.concentration_mmolL_to_mgdL(glucose_raw / VG[0]), or pass-through
Normalize(c) ==
  IF c.unit = "mmol/L"
  THEN [i \in 1..Len(c.raw) |-> ConvFactor * (c.raw[i] \div c.VG)]
  ELSE c.raw

\* variant: no truncation
MaskedNone(xs, time, max_time) == xs

\* xs[mask] with mask = time_points <= max_time
Masked(xs, time, max_time) ==
  LET F[i \in 0..Len(xs)] ==
        IF i = 0 THEN <<>>
        ELSE IF time[i] <= max_time THEN Append(F[i - 1], xs[i]) ELSE F[i - 1]
  IN  F[Len(xs)]

\* ------------------------------------------------- Summarizer / subsampler
\* variant: the minimum of the samples the subsampled trace keeps
SeqMinKept(xs) ==
  LET kept == {xs[i] : i \in {j \in 1..Len(xs) : (j - 1) % 15 = 0 \/ j = Len(xs)}}
  IN  CHOOSE m \in kept : \A x \in kept : m <= x

SeqMin(xs) == CHOOSE m \in {xs[i] : i \in 1..Len(xs)} : \A i \in 1..Len(xs) : m <= xs[i]
SeqMax(xs) == CHOOSE m \in {xs[i] : i \in 1..Len(xs)} : \A i \in 1..Len(xs) : m >= xs[i]

\* variant: the thresholds themselves count as low and high
StatusInclusive(min_glucose, max_glucose) ==
  IF min_glucose <= LowThreshold THEN "Hypoglycemia (Low)"
  ELSE IF max_glucose >= HighThreshold THEN "Hyperglycemia (High)"
  ELSE "Normal"

\* status = "Normal"; if min < 70: low; elif max > 180: high
Status(min_glucose, max_glucose) ==
  IF min_glucose < LowThreshold THEN "Hypoglycemia (Low)"
  ELSE IF max_glucose > HighThreshold THEN "Hyperglycemia (High)"
  ELSE "Normal"

\* round(x, 1): hundredths to tenths, ties to the even tenth
Round1(h) ==
  LET q == h \div 10
      r == h % 10
  IN  IF r > 5 \/ (r = 5 /\ q % 2 = 1) THEN q + 1 ELSE q

\* variant: positions counted from 1
KeptOneBased(i, len) == (i + 1) % SubsampleStep = 0 \/ i = len - 1

\* variant: the final sample is not forced into the trace
KeptNoFinal(i, len) == i % SubsampleStep = 0

\* if i % 15 == 0 or i == len(glucose) - 1, for the 0-based position i
Kept(i, len) == i % SubsampleStep = 0 \/ i = len - 1

\* the list comprehension over enumerate(zip(time_points, glucose))
CgmTrace(time_points, glucose) ==
  LET n == IF Len(time_points) <= Len(glucose) THEN Len(time_points) ELSE Len(glucose)
      F[k \in 0..n] ==
        IF k = 0 THEN <<>>
        ELSE IF Kept(k - 1, Len(glucose))
             THEN Append(F[k - 1], [time_min |-> time_points[k], glucose_mg_dl |-> Round1(glucose[k])])
             ELSE F[k - 1]
  IN  F[n]

\* json.dumps(result_data)
JsonDumps(data) == [kind |-> "json", summary |-> data.summary, cgm_trace |-> data.cgm_trace]

\* lines 175-226 on a cohort that has a glucose state and a non-empty truncation
ResultData(c, duration_minutes) ==
  LET all == Normalize(c)
      time_points == Masked(c.time, c.time, duration_minutes)
      glucose == Masked(all, c.time, duration_minutes)
      min_glucose == SeqMin(glucose)
      max_glucose == SeqMax(glucose)
      final_glucose == glucose[Len(glucose)]
  IN  [summary |-> [status |-> Status(min_glucose, max_glucose),
                    min_glucose_mg_dl |-> Round1(min_glucose),
                    max_glucose_mg_dl |-> Round1(max_glucose),
                    final_glucose_mg_dl |-> Round1(final_glucose)],
       cgm_trace |-> CgmTrace(time_points, glucose)]

\* lines 175-226: extract, normalize, truncate, summarize, serialize; indexing
\* a missing glucose state raises, np.min of an empty array raises
Summarize(s) ==
  /\ frame[s].pc = "summarize"
  /\ LET c == frame[s].cohort
         d == frame[s].req.duration_minutes
     IN frame' = [frame EXCEPT ![s] =
          IF ~c.has_glucose THEN Except(@, "extraction", "no glucose state")
          ELSE IF Masked(c.time, c.time, d) = <<>>
               THEN Except(@, "summary", "zero-size array")
          ELSE [@ EXCEPT !.pc = "done", !.result = JsonDumps(ResultData(c, d))]]
  /\ UNCHANGED <<initialized, cwd, sys_modules, scenario_default, folders, nreq, initRuns, initOK, tool_call>>

\* the returned string has been delivered; the frame is gone
Return(s) ==
  /\ frame[s].pc = "done"
  /\ frame' = [frame EXCEPT ![s] = IdleFrame]
  /\ UNCHANGED <<initialized, cwd, sys_modules, scenario_default, folders, nreq, initRuns, initOK, tool_call>>

\* ----------------------------------------------------------- specifications
Guard(s) ==
  \/ EnsureCheck(s) \/ EnsureGetcwd(s) \/ EnsureChdir(s) \/ EnsureImport(s)
  \/ EnsureImportEnd(s) \/ EnsureFinally(s) \/ EnsureSetFlag(s)

Pipeline(s) ==
  \/ MapParameters(s) \/ CreateResultsFolder(s) \/ LoadSettingsFile(s)
  \/ GenerateSettings(s) \/ GenerateSubjects(s) \/ ActivityArgsToScenario(s)
  \/ GenerateInputs(s) \/ GenerateResults(s) \/ Summarize(s) \/ Return(s)

\* requests served one at a time, each to completion
Next ==
  \E s \in Slots : (\E r \in Requests : Start(s, r)) \/ Guard(s) \/ Pipeline(s)

Spec == Init /\ [][Next]_vars

\* requests that can overlap, statement by statement
NextConcurrent ==
  \E s \in Slots : StartConcurrent(s) \/ Guard(s) \/ Pipeline(s)

SpecConcurrent == Init /\ [][NextConcurrent]_vars

\* the parameter mapper alone, over a range of durations: one request of an
\* initialized server stands before line 100
MapperRequests ==
  {[DefaultRequest EXCEPT !.duration_minutes = d] : d \in (0 - 2)..MaxDuration}

InitMapper ==
  /\ initialized = TRUE
  /\ cwd = LAUNCH_DIR
  /\ sys_modules = "loaded"
  /\ scenario_default \in ScenarioNames
  /\ folders = 0
  /\ \E r \in MapperRequests :
       frame = [s \in Slots |->
                  IF s = 1 THEN [IdleFrame EXCEPT !.pc = "map", !.req = r,
                                                  !.entry_cwd = LAUNCH_DIR]
                  ELSE IdleFrame]
  /\ nreq = 1
  /\ initRuns = 1
  /\ initOK = 1
  /\ tool_call = IdleToolCall

NextMapper == \E s \in Slots : MapParameters(s)

SpecMapper == InitMapper /\ [][NextMapper]_vars

\* the summarizer alone, over a family of cohort results: one request of an
\* initialized server, on a named scenario, stands before line 175.  The
\* samples are one minute apart from minute 0; the glucose is level except
\* for one low sample and one high sample.
SummaryUnits == {"mg/dL", "mmol/L", "g/L"}
SummaryDurations == {-1, 7, 15, 1500}

SummaryCohort(len, unit, lowPos, lowVal, highPos, highVal) ==
  [has_glucose |-> TRUE, unit |-> unit, VG |-> IF unit = "mmol/L" THEN 18 ELSE 1,
   time |-> [i \in 1..len |-> i - 1],
   raw |-> [i \in 1..len |-> IF i = lowPos THEN lowVal
                              ELSE IF i = highPos THEN highVal ELSE 10000]]

SummaryCohorts ==
  { SummaryCohort(len, unit, lowPos, lowVal, highPos, highVal) :
      len \in 1..MaxSamples, unit \in SummaryUnits,
      lowPos \in {1, 8}, lowVal \in {6500, 6995, 7000, 9005},
      highPos \in {9, 31}, highVal \in {15000, 18000, 18015, 20000} }

SummaryFrame(r, c) ==
  LET a == MapArgs(ParserDefaults("named"), r)
      call(stage, scenario, path) ==
        [stage |-> stage, scenario_instance |-> scenario, args |-> a,
         results_folder_path |-> path, cwd |-> LAUNCH_DIR]
  IN  [IdleFrame EXCEPT !.pc = "summarize", !.req = r, !.entry_cwd = LAUNCH_DIR,
                        !.args = a, !.results_folder_path = 1,
                        !.settings_file = <<"load">>, !.cohort = c,
                        !.calls = <<call("folder", <<>>, 0), call("load", <<>>, 1),
                                    call("results", <<"load">>, 1)>>]

InitSummary ==
  /\ initialized = TRUE
  /\ cwd = LAUNCH_DIR
  /\ sys_modules = "loaded"
  /\ scenario_default = "named"
  /\ folders = 1
  /\ \E d \in SummaryDurations, c \in SummaryCohorts :
       frame = [s \in Slots |->
                  IF s = 1
                  THEN SummaryFrame([DefaultRequest EXCEPT !.duration_minutes = d], c)
                  ELSE IdleFrame]
  /\ nreq = 1
  /\ initRuns = 1
  /\ initOK = 1
  /\ tool_call = IdleToolCall

NextSummary == \E s \in Slots : Summarize(s)

SpecSummary == InitSummary /\ [][NextSummary]_vars

\* ------------------------------- SimulatorAdapter (test_adapter_connection)
\* The arguments dict of a tool call: "steps" and "context" are each present
\* or missing; steps is an integer or a value that is not a number.
StepsValues == {Num(v) : v \in (0 - 2)..MaxSteps} \cup {NonNumeric}
ContextValues == {"test_scenario_A", "fail_scenario"}
ArgumentDicts ==
  {[steps |-> st, context |-> cx] : st \in StepsValues, cx \in ContextValues}
    \cup {[steps |-> st] : st \in StepsValues}
    \cup {[context |-> cx] : cx \in ContextValues}
    \cup {[unrelated |-> "x"]}

\* variant: a missing key yields None instead of the default
DictGetNoDefault(d, key, default) == IF key \in DOMAIN d THEN d[key] ELSE NonNumeric

\* arguments.get(key, default)
DictGet(d, key, default) == IF key \in DOMAIN d THEN d[key] ELSE default

\* return f"Tool Execution Failed: {error_msg}" with error_msg = "Error in simulator adapter: " + str(e)
AdapterFailure(e) == <<"Tool Execution Failed: ", "Error in simulator adapter: ", e>>

\* the formatted text of lines 67-72
AdapterOutput(raw_result) ==
  <<"Simulation Complete", ".\n", "Status: ", raw_result.status, "\n",
    "Accuracy: ", raw_result.metrics.accuracy, "\n", "Data: ", raw_result.result_data>>

\* adapter.call_tool(arguments) is entered
CallTool(a) ==
  /\ tool_call.pc = "idle"
  /\ tool_call' = [IdleToolCall EXCEPT !.pc = "get", !.arguments = a]
  /\ UNCHANGED <<initialized, cwd, sys_modules, scenario_default, folders, frame, nreq, initRuns, initOK>>

\* steps = arguments.get("steps", 10); context = arguments.get("context", "default")
AdapterGet ==
  /\ tool_call.pc = "get"
  /\ tool_call' = [tool_call EXCEPT !.pc = "run",
                                    !.steps = DictGet(tool_call.arguments, "steps", Num(10)),
                                    !.context = DictGet(tool_call.arguments, "context", "default")]
  /\ UNCHANGED <<initialized, cwd, sys_modules, scenario_default, folders, frame, nreq, initRuns, initOK>>

\* MockSimulator.run_simulation(steps, context): `steps < 0` raises TypeError
\* on a value that is not a number, ValueError on a negative one
RunSimulation(steps, context) ==
  IF steps.kind # "num" THEN [raised |-> TRUE, e |-> "'<' not supported"]
  ELSE IF steps.val < 0 THEN [raised |-> TRUE, e |-> "Steps cannot be negative"]
  ELSE [raised |-> FALSE,
        value |-> [status |-> "success", steps_completed |-> steps.val,
                   result_data |-> <<"Simulation result for ", context>>,
                   metrics |-> [accuracy |-> "0.98"]]]

\* raw_result = self.simulator.run_simulation(steps, context), or the except clause
AdapterRun ==
  /\ tool_call.pc = "run"
  /\ LET res == RunSimulation(tool_call.steps, tool_call.context)
     IN tool_call' = IF res.raised
                     THEN [tool_call EXCEPT !.pc = "done", !.output = AdapterFailure(res.e)]
                     ELSE [tool_call EXCEPT !.pc = "format", !.raw_result = res.value]
  /\ UNCHANGED <<initialized, cwd, sys_modules, scenario_default, folders, frame, nreq, initRuns, initOK>>

\* output = (...); return output
AdapterFormat ==
  /\ tool_call.pc = "format"
  /\ tool_call' = [tool_call EXCEPT !.pc = "done", !.output = AdapterOutput(tool_call.raw_result)]
  /\ UNCHANGED <<initialized, cwd, sys_modules, scenario_default, folders, frame, nreq, initRuns, initOK>>

\* the text has been handed to the caller
AdapterReturn ==
  /\ tool_call.pc = "done"
  /\ tool_call' = IdleToolCall
  /\ UNCHANGED <<initialized, cwd, sys_modules, scenario_default, folders, frame, nreq, initRuns, initOK>>

NextAdapter ==
  \/ \E a \in ArgumentDicts : CallTool(a)
  \/ AdapterGet \/ AdapterRun \/ AdapterFormat \/ AdapterReturn

SpecAdapter == Init /\ [][NextAdapter]_vars

\* =================================================================== claims
StageNames(calls) == [k \in 1..Len(calls) |-> calls[k].stage]
IsPrefix(xs, ys) == Len(xs) <= Len(ys) /\ \A k \in 1..Len(xs) : xs[k] = ys[k]
Invoked(f, stage) == \E k \in 1..Len(f.calls) : f.calls[k].stage = stage

PrepStages == {"settings", "subjects", "inputs"}
EngineStages == PrepStages \cup {"results"}
GuardBody == {"getcwd", "chdir", "import", "importing", "finally", "setflag"}
PipelinePcs == {"map", "folder", "load", "settings", "subjects", "activity",
                "inputs", "results", "summarize"}
FullOrder == <<"folder", "load", "settings", "subjects", "activity", "inputs", "results">>
NamedOrder == <<"folder", "load", "results">>

\* C1: a call that has returned has returned the error string, which begins
\* with "Error executing simulation: ", or the success JSON; whatever stage
\* failed, it returned the error string; the JSON is returned only when no
\* stage failed and every stage up to the cohort simulation and the summary
\* has completed.
C1_FailureYieldsErrorString ==
  \A s \in Slots :
    LET f == frame[s] IN
    /\ f.failed # "" => f.pc = "done"
    /\ f.pc = "done" =>
         /\ f.result.kind \in {"plain", "json"}
         /\ f.failed # "" <=> f.result.kind = "plain"
         /\ f.result.kind = "plain" =>
              f.result.prefix = "Error executing simulation: " /\ f.result.detail # ""
         /\ f.result.kind = "json" =>
              /\ initialized
              /\ f.args # NoArgs /\ f.results_folder_path > 0
              /\ StageNames(f.calls) = (IF f.args.scenario_name = "" THEN FullOrder ELSE NamedOrder)
              /\ f.cohort \in CohortResults /\ f.cohort.has_glucose
              /\ f.result.cgm_trace # <<>>

\* a call returned the error string after the cohort simulation raised
C1_Witness ==
  \E s \in Slots :
    /\ frame[s].pc = "done" /\ frame[s].failed = "results"
    /\ frame[s].result = [kind |-> "plain", prefix |-> ErrorPrefix, detail |-> "engine failed"]

\* C2 as stated: the body of the initialization runs at most once, and has
\* run exactly once whenever a request is past the guard.
C2_InitRunsExactlyOnce ==
  /\ initRuns <= 1
  /\ \A s \in Slots : frame[s].pc \in PipelinePcs => initRuns = 1

\* C2 amended: the initialization completes at most once; a request is past
\* the guard only when it has completed and the flag is set; once the flag is
\* set no request is inside the guard's body (later requests are no-ops);
\* every run of the body but the completed one raised.
C2_InitCompletesOnce ==
  /\ initOK <= 1
  /\ initialized => initOK = 1
  /\ initRuns <= nreq
  /\ \A s \in Slots :
       /\ frame[s].pc \in PipelinePcs => initialized /\ initOK = 1
       /\ initialized => frame[s].pc \notin GuardBody
       /\ (frame[s].pc = "done" /\ frame[s].failed # "initialization") => initialized

\* the third request skips an initialization that failed once and then completed
C2_Witness ==
  \E s \in Slots :
    frame[s].pc = "map" /\ nreq = 3 /\ initRuns = 2 /\ initOK = 1

\* C3: once the guard has returned or raised, the working directory is the
\* one the guard was entered with.
C3_CwdRestored ==
  \A s \in Slots :
    (frame[s].pc \in PipelinePcs \cup {"setflag", "done"}) => cwd = frame[s].entry_cwd

\* the initialization raised inside the relocated directory and the request has returned
C3_Witness ==
  \E s \in Slots :
    /\ frame[s].pc = "done" /\ frame[s].exc = "initialization failed"
    /\ frame[s].old_cwd = LAUNCH_DIR /\ cwd = LAUNCH_DIR

\* C4: without a named scenario the calls into the engine follow the fixed
\* order (settings, subjects, inputs, cohort simulation); each is handed the
\* scenario the previous one returned and the request's EngineConfig; a
\* stage that raised is the last one called.
C4_FixedStageOrder ==
  \A s \in Slots :
    LET f == frame[s] IN
    (f.args # NoArgs /\ f.args.scenario_name = "") =>
      /\ IsPrefix(StageNames(f.calls), FullOrder)
      /\ \A k \in 1..Len(f.calls) :
           /\ f.calls[k].args = f.args
           /\ k > 1 => f.calls[k].results_folder_path = f.results_folder_path
           /\ k > 2 => f.calls[k].scenario_instance =
                         Append(f.calls[k - 1].scenario_instance, f.calls[k - 1].stage)
      /\ f.pc \in EngineStages \cup {"activity"} =>
           /\ IsPrefix(Append(StageNames(f.calls), f.pc), FullOrder)
           /\ f.settings_file = Append(f.calls[Len(f.calls)].scenario_instance,
                                       f.calls[Len(f.calls)].stage)
      /\ f.failed \in EngineStages => f.calls[Len(f.calls)].stage = f.failed

\* all four stages have been called in a request without a named scenario
C4_Witness ==
  \E s \in Slots :
    /\ frame[s].pc = "summarize" /\ frame[s].args.scenario_name = ""
    /\ StageNames(frame[s].calls) = FullOrder

\* C5: a preparation stage is invoked only when no scenario is named, and
\* then all three precede the cohort simulation; with a named scenario the
\* cohort simulation is called on the scenario as loaded.
C5_PreparationIffUnnamed ==
  \A s \in Slots :
    LET f == frame[s] IN
    f.args # NoArgs =>
      /\ (\E st \in PrepStages : Invoked(f, st) \/ f.pc = st) => f.args.scenario_name = ""
      /\ (f.args.scenario_name = "" /\ (Invoked(f, "results") \/ f.pc = "results")) =>
           \A st \in PrepStages : Invoked(f, st)
      /\ f.args.scenario_name # "" =>
           \A k \in 1..Len(f.calls) :
             f.calls[k].stage = "results" => f.calls[k].scenario_instance = <<"load">>

\* the cohort simulation has run on a named scenario without preparation
C5_Witness ==
  \E s \in Slots :
    /\ frame[s].pc = "summarize" /\ frame[s].args.scenario_name = "named"
    /\ StageNames(frame[s].calls) = NamedOrder

\* C6: a request in which a stage raised is finished: from then on its frame
\* does not change (no later stage, no second call of the failed stage, no
\* retry) until it is given back; and a frame that is started anew starts at
\* the guard with no call made.
C6_FailedStays ==
  [][\A s \in Slots :
       /\ frame[s].failed # "" =>
            frame[s].pc = "done" /\ (frame'[s] = frame[s] \/ frame'[s] = IdleFrame)
       /\ (frame[s].failed = "" /\ frame'[s].failed # "") =>
            /\ frame'[s].pc = "done"
            /\ frame'[s].failed \in EngineStages =>
                 /\ Len(frame'[s].calls) = Len(frame[s].calls) + 1
                 /\ ~Invoked(frame[s], frame'[s].failed)
       /\ (frame[s].pc = "idle" /\ frame'[s].pc # "idle") =>
            frame'[s].pc = "guard" /\ frame'[s].calls = <<>>]_vars

\* virtual-subject generation raised and the request has returned
C6_Witness ==
  \E s \in Slots :
    /\ frame[s].pc = "done" /\ frame[s].failed = "subjects"
    /\ StageNames(frame[s].calls) = <<"folder", "load", "settings", "subjects">>

\* C7: no two requests are both past the "not yet initialized" check and
\* inside the initialization, whatever the interleaving.
C7_InitializationGuarded ==
  \A s, t \in Slots :
    (s # t /\ frame[s].pc \in GuardBody) => frame[t].pc \notin GuardBody

\* C8: whenever results-folder creation or an engine stage is called, the
\* working directory is the original one, whatever the interleaving.
C8_RelocationConfined ==
  \A s \in Slots : \A k \in 1..Len(frame[s].calls) : frame[s].calls[k].cwd = LAUNCH_DIR

\* C9: a call with negative or non-numeric carbs_grams that has returned has
\* returned the error string.
C9_InvalidCarbsRejected ==
  \A s \in Slots :
    LET f == frame[s] IN
    (f.pc = "done" /\ (f.req.carbs_grams.kind # "num" \/ f.req.carbs_grams.val < 0)) =>
      f.result.kind = "plain" /\ f.result.prefix = ErrorPrefix

\* C10: number_of_days is the least number of whole days that covers
\* duration_minutes, and at least 1: 1 on [1,1440], 2 on (1440,2880].
C10_DaysCeiling ==
  \A s \in Slots :
    LET f == frame[s]
        d == f.req.duration_minutes
    IN f.args # NoArgs =>
         LET days == f.args.number_of_days IN
         /\ days >= 1
         /\ d <= 0 => days = 1
         /\ d >= 1 => (days - 1) * 1440 < d /\ d <= days * 1440
         /\ d \in 1..1440 => days = 1
         /\ d \in 1441..2880 => days = 2

\* a duration just over one day has been mapped to two days
C10_Witness ==
  \E s \in Slots :
    /\ frame[s].args # NoArgs
    /\ frame[s].req.duration_minutes = 1441 /\ frame[s].args.number_of_days = 2

\* ---------------------------------------------- claims on the summarizer
\* the 1-based indices of the samples that survive truncation
Truncated(f) ==
  {i \in 1..Len(f.cohort.time) : f.cohort.time[i] <= f.req.duration_minutes}
Succeeded(f) == f.pc = "done" /\ f.result.kind = "json"
\* the index of the sample taken at a time (sample times are distinct)
IndexAt(c, t) == CHOOSE i \in 1..Len(c.time) : c.time[i] = t
First(S) == CHOOSE i \in S : \A j \in S : i <= j
Last(S) == CHOOSE i \in S : \A j \in S : i >= j

\* C11: for a truncated sequence of length L >= 1 the trace holds exactly
\* the samples at the 0-based positions {0, 15, 30, ...} and L-1, in
\* ascending order, each once.
C11_SubsamplePositions ==
  \A s \in Slots :
    LET f == frame[s] IN
    Succeeded(f) =>
      LET c == f.cohort
          L == Cardinality(Truncated(f))
          pos == {p \in 0..(L - 1) : p % 15 = 0 \/ p = L - 1}
          tr == f.result.cgm_trace
      IN /\ L >= 1
         /\ Len(tr) = Cardinality(pos)
         /\ \A k \in 1..Len(tr) :
              /\ \E p \in pos :
                   /\ tr[k].time_min = c.time[p + 1]
                   /\ tr[k].glucose_mg_dl = Round1(Normalize(c)[p + 1])
              /\ k < Len(tr) => tr[k].time_min < tr[k + 1].time_min

\* 31 samples: positions 0, 15 and 30, the final one not repeated
C11_Witness ==
  \E s \in Slots :
    /\ Succeeded(frame[s]) /\ Cardinality(Truncated(frame[s])) = 31
    /\ Len(frame[s].result.cgm_trace) = 3

\* C12: the status is low if some truncated sample is below 70 mg/dL, else
\* high if some truncated sample is above 180 mg/dL, else normal; 70 and 180
\* themselves are neither low nor high.
C12_StatusClassification ==
  \A s \in Slots :
    LET f == frame[s] IN
    Succeeded(f) =>
      LET g == Normalize(f.cohort)
          low == \E i \in Truncated(f) : g[i] < 7000
          high == \E i \in Truncated(f) : g[i] > 18000
      IN f.result.summary.status =
           (IF low THEN "Hypoglycemia (Low)"
            ELSE IF high THEN "Hyperglycemia (High)" ELSE "Normal")

\* the extremes are exactly 70 and 180 mg/dL and the status is normal
C12_Witness ==
  \E s \in Slots :
    /\ Succeeded(frame[s]) /\ frame[s].cohort.unit = "mg/dL"
    /\ \E i \in Truncated(frame[s]) : frame[s].cohort.raw[i] = 7000
    /\ \E i \in Truncated(frame[s]) : frame[s].cohort.raw[i] = 18000
    /\ frame[s].result.summary.status = "Normal"

\* C13: no trace entry is later than duration_minutes, and minimum, maximum,
\* final value and status are those of the samples up to duration_minutes
\* alone.
C13_TruncatedToDuration ==
  \A s \in Slots :
    LET f == frame[s] IN
    Succeeded(f) =>
      LET g == Normalize(f.cohort)
          T == Truncated(f)
          sm == f.result.summary
          tr == f.result.cgm_trace
      IN /\ \A k \in 1..Len(tr) : tr[k].time_min <= f.req.duration_minutes
         /\ \E i \in T : (\A j \in T : g[i] <= g[j]) /\ sm.min_glucose_mg_dl = Round1(g[i])
         /\ \E i \in T : (\A j \in T : g[i] >= g[j]) /\ sm.max_glucose_mg_dl = Round1(g[i])
         /\ sm.final_glucose_mg_dl = Round1(g[Last(T)])
         /\ (sm.status = "Hypoglycemia (Low)") => \E i \in T : g[i] < LowThreshold
         /\ (sm.status = "Hyperglycemia (High)") => \E i \in T : g[i] > HighThreshold

\* the engine's sequence goes on after duration_minutes with a sample of 200
\* mg/dL, and the status is normal
C13_Witness ==
  \E s \in Slots :
    /\ Succeeded(frame[s]) /\ frame[s].req.duration_minutes = 15
    /\ Len(frame[s].cohort.raw) = 32 /\ frame[s].cohort.raw[31] = 20000
    /\ frame[s].result.summary.status = "Normal"

\* C14: every truncated sample, also one the trace does not keep, lies
\* between the summary's minimum and maximum and counts for the status.
C14_SummaryOverFullSequence ==
  \A s \in Slots :
    LET f == frame[s] IN
    Succeeded(f) =>
      LET g == Normalize(f.cohort)
          sm == f.result.summary
      IN \A i \in Truncated(f) :
           /\ sm.min_glucose_mg_dl <= Round1(g[i])
           /\ Round1(g[i]) <= sm.max_glucose_mg_dl
           /\ g[i] < LowThreshold => sm.status = "Hypoglycemia (Low)"
           /\ g[i] > HighThreshold => sm.status # "Normal"

\* the minimum, 65 mg/dL, is at a position the trace does not keep
C14_Witness ==
  \E s \in Slots :
    /\ Succeeded(frame[s]) /\ frame[s].cohort.unit = "mg/dL"
    /\ Cardinality(Truncated(frame[s])) = 20 /\ frame[s].cohort.raw[8] = 6500
    /\ frame[s].result.summary.min_glucose_mg_dl = 650
    /\ \A k \in 1..Len(frame[s].result.cgm_trace) :
         frame[s].result.cgm_trace[k].glucose_mg_dl # 650

\* C16: the returned values are the raw samples converted when the unit is
\* "mmol/L" and the raw samples themselves for any other unit.
C16_ConvertIffMmol ==
  \A s \in Slots :
    LET f == frame[s] IN
    Succeeded(f) =>
      LET c == f.cohort
          expected(i) == IF c.unit = "mmol/L" THEN 18 * (c.raw[i] \div c.VG) ELSE c.raw[i]
          tr == f.result.cgm_trace
      IN /\ \A k \in 1..Len(tr) :
              tr[k].glucose_mg_dl = Round1(expected(IndexAt(c, tr[k].time_min)))
         /\ f.result.summary.final_glucose_mg_dl = Round1(expected(Last(Truncated(f))))
         /\ c.unit # "mmol/L" =>
              f.result.summary.final_glucose_mg_dl = Round1(c.raw[Last(Truncated(f))])

\* a sequence reported in a unit that is not mmol/L went through unchanged
C16_Witness ==
  \E s \in Slots :
    /\ Succeeded(frame[s]) /\ frame[s].cohort.unit = "g/L"
    /\ Cardinality(Truncated(frame[s])) = 8
    /\ frame[s].result.summary.final_glucose_mg_dl = 650

\* C20: a success JSON has a trace that starts with the first truncated
\* sample and ends with the final glucose of the summary, which lies between
\* the minimum and the maximum; an empty truncation yields the error string.
C20_TraceEndsAndEmptyTruncation ==
  \A s \in Slots :
    LET f == frame[s]
        T == Truncated(f)
    IN /\ Succeeded(f) =>
            LET tr == f.result.cgm_trace
                sm == f.result.summary
            IN /\ T # {} /\ tr # <<>>
               /\ tr[1].time_min = f.cohort.time[First(T)]
               /\ tr[1].glucose_mg_dl = Round1(Normalize(f.cohort)[First(T)])
               /\ tr[Len(tr)].time_min = f.cohort.time[Last(T)]
               /\ tr[Len(tr)].glucose_mg_dl = sm.final_glucose_mg_dl
               /\ sm.min_glucose_mg_dl <= sm.final_glucose_mg_dl
               /\ sm.final_glucose_mg_dl <= sm.max_glucose_mg_dl
       /\ (f.pc = "done" /\ f.cohort # NoCohort /\ T = {}) =>
            f.result.kind = "plain" /\ f.result.prefix = "Error executing simulation: "

\* a negative duration left no sample and the call returned the error string
C20_Witness ==
  \E s \in Slots :
    /\ frame[s].pc = "done" /\ frame[s].req.duration_minutes = -1
    /\ frame[s].cohort # NoCohort /\ frame[s].cohort.has_glucose
    /\ frame[s].result.kind = "plain"

\* ------------------------------------------------- claims on the pipeline
\* C15: every call of an engine stage is made with each activity list of the
\* EngineConfig holding exactly one zero-effect placeholder; a request about
\* to generate input signals holds such lists.
PlaceholderActivity(a) ==
  /\ a.running_start_time = <<"00:00">> /\ a.cycling_start_time = <<"00:00">>
  /\ a.running_duration = <<0>> /\ a.cycling_duration = <<0>>
  /\ a.running_incline = <<0>> /\ a.running_speed = <<0>> /\ a.cycling_power = <<0>>

C15_ActivityPlaceholders ==
  \A s \in Slots :
    LET f == frame[s] IN
    /\ \A k \in 1..Len(f.calls) :
         f.calls[k].stage \in EngineStages \cup {"activity"} =>
           PlaceholderActivity(f.calls[k].args)
    /\ f.pc \in EngineStages \cup {"activity"} => PlaceholderActivity(f.args)

\* input-signal generation has been called
C15_Witness ==
  \E s \in Slots :
    /\ Invoked(frame[s], "inputs")
    /\ frame[s].args.running_duration = <<0>> /\ frame[s].args.cycling_start_time = <<"00:00">>

\* C18: a request whose initialization failed returns the error string with
\* the flag unset, no results folder created and no engine stage called; a
\* request that finds the flag unset runs the initialization; the flag is set
\* only by a request whose initialization returned without raising, and is
\* never cleared.
C18_FailedInitLeavesFlagUnset ==
  [][/\ \A s \in Slots :
          (frame'[s].pc = "done" /\ frame'[s].failed = "initialization") =>
            /\ ~initialized' /\ folders' = folders
            /\ frame'[s].calls = <<>> /\ frame'[s].results_folder_path = 0
            /\ frame'[s].result.kind = "plain"
            /\ frame'[s].result.prefix = "Error executing simulation: "
     /\ \A s \in Slots :
          (frame[s].pc = "guard" /\ frame'[s].pc # "guard" /\ ~initialized) =>
            frame'[s].pc = "getcwd"
     /\ (~initialized /\ initialized') =>
          \E s \in Slots : frame[s].pc = "setflag" /\ frame[s].exc = "" /\ sys_modules = "loaded"
     /\ initialized => initialized']_vars

\* the second request initializes again after the first one's initialization raised
C18_Witness ==
  \E s \in Slots :
    /\ frame[s].pc = "importing" /\ nreq = 2 /\ initRuns = 2 /\ initOK = 0
    /\ ~initialized

\* C19: the EngineConfig, and the arguments of every call into the engine,
\* are determined by carbs_grams, duration_minutes and the engine's defaults;
\* insulin_bolus and body_weight appear nowhere in them, and the stages
\* called do not depend on them.
ConfigWithoutBolusAndWeight(carbs_grams, duration_minutes) ==
  [scenario_name |-> scenario_default,
   number_of_days |-> IF duration_minutes <= 1440 THEN 1 ELSE 2,
   breakfast_carb_range |-> <<carbs_grams, carbs_grams>>,
   running_start_time |-> <<"00:00">>, cycling_start_time |-> <<"00:00">>,
   running_duration |-> <<0>>, cycling_duration |-> <<0>>,
   running_incline |-> <<0>>, running_speed |-> <<0>>, cycling_power |-> <<0>>]

C19_BolusAndWeightIgnored ==
  \A s \in Slots :
    LET f == frame[s]
        cfg == ConfigWithoutBolusAndWeight(f.req.carbs_grams, f.req.duration_minutes)
    IN f.args # NoArgs =>
         /\ f.args = cfg
         /\ IsPrefix(StageNames(f.calls), IF scenario_default = "" THEN FullOrder ELSE NamedOrder)
         /\ \A k \in 1..Len(f.calls) :
              /\ f.calls[k].args = cfg
              /\ f.calls[k].scenario_instance =
                   (IF k <= 2 THEN <<>> ELSE SubSeq(<<"load">> \o SubSeq(FullOrder, 3, 7), 1,
                                                    IF scenario_default = "" THEN k - 2 ELSE 1))

\* a request with a bolus and a non-default weight has run the cohort simulation
C19_Witness ==
  \E s \in Slots :
    /\ frame[s].pc = "summarize" /\ frame[s].req.insulin_bolus = 4
    /\ frame[s].req.body_weight = 50 /\ Invoked(frame[s], "results")

\* -------------------------------------------------- claims on the adapter
Contains(text, piece) == \E i \in 1..Len(text) : text[i] = piece

\* C17: call_tool always ends with a text: one containing "Simulation
\* Complete" when run_simulation returned, one containing "Tool Execution
\* Failed" when it raised (steps negative or not a number); a missing key
\* counts as steps = 10, context = "default".
C17_AdapterNeverPropagates ==
  /\ tool_call.pc \in {"idle", "get", "run", "format", "done"}
  /\ tool_call.pc = "done" =>
       LET a == tool_call.arguments
           steps == IF "steps" \in DOMAIN a THEN a.steps ELSE [kind |-> "num", val |-> 10]
           context == IF "context" \in DOMAIN a THEN a.context ELSE "default"
           out == tool_call.output
       IN IF steps.kind = "num" /\ steps.val >= 0
          THEN /\ Contains(out, "Simulation Complete")
               /\ ~Contains(out, "Tool Execution Failed: ")
               /\ tool_call.raw_result.steps_completed = steps.val
               /\ out[Len(out)] = <<"Simulation result for ", context>>
          ELSE /\ Contains(out, "Tool Execution Failed: ")
               /\ ~Contains(out, "Simulation Complete")
               /\ tool_call.raw_result = NoRawResult

\* a call without "steps" and "context" ran ten steps in the default context
C17_Witness ==
  /\ tool_call.pc = "done" /\ tool_call.arguments = [unrelated |-> "x"]
  /\ tool_call.raw_result # NoRawResult
  /\ tool_call.raw_result.steps_completed = 10
  /\ tool_call.raw_result.result_data = <<"Simulation result for ", "default">>

====
